---- MODULE Spec2Model ----
(* DeltaTracker ("L10n Tracker"): spreadsheet import (excelParser.ts), the   *)
(* App component's state and handlers (App.tsx), the DropZone entry points    *)
(* and the debounced dual-mode search effect.                                *)
(* Strings are sequences of one-character strings so that trim, lower-casing *)
(* and the regular-expression test are computed character by character.      *)
EXTENDS Integers, Sequences, FiniteSets, TLC

(* ------------------------------------------------------------------------ *)
(* Bounds                                                                    *)
(* ------------------------------------------------------------------------ *)
\* largest number of files handed to one import call
MaxFiles == 2
(* ------------------------------------------------------------------------ *)
(* JavaScript string primitives                                              *)
(* ------------------------------------------------------------------------ *)
\* String.prototype.trim / the regex class \s : the white space characters
WhiteSpace == {" ", "\t", "\n"}

\* String.prototype.toLowerCase on one character
LowerChar(c) ==
  CASE c = "A" -> "a" [] c = "B" -> "b" [] c = "D" -> "d" [] c = "E" -> "e"
    [] c = "I" -> "i" [] c = "K" -> "k" [] c = "S" -> "s" [] c = "T" -> "t"
    [] c = "U" -> "u" [] c = "X" -> "x" [] c = "Y" -> "y"
    [] OTHER -> c

toLowerCase(s) == [i \in 1 .. Len(s) |-> LowerChar(s[i])]

RECURSIVE TrimStart(_)
TrimStart(s) ==
  IF s = <<>> THEN <<>>
  ELSE IF Head(s) \in WhiteSpace THEN TrimStart(Tail(s)) ELSE s

RECURSIVE TrimEnd(_)
TrimEnd(s) ==
  IF s = <<>> THEN <<>>
  ELSE IF s[Len(s)] \in WhiteSpace THEN TrimEnd(SubSeq(s, 1, Len(s) - 1)) ELSE s

trim(s) == TrimEnd(TrimStart(s))

\* String.prototype.includes
includes(s, sub) ==
  \E i \in 0 .. (Len(s) - Len(sub)) : SubSeq(s, i + 1, i + Len(sub)) = sub

DigitChar(d) ==
  CASE d = 0 -> "0" [] d = 1 -> "1" [] d = 2 -> "2" [] d = 3 -> "3"
    [] d = 4 -> "4" [] d = 5 -> "5" [] d = 6 -> "6" [] d = 7 -> "7"
    [] d = 8 -> "8" [] OTHER -> "9"

RECURSIVE NumToString(_)
NumToString(n) ==
  IF n < 10 THEN <<DigitChar(n)>>
  ELSE NumToString(n \div 10) \o <<DigitChar(n % 10)>>

(* ------------------------------------------------------------------------ *)
(* Cells as delivered by XLSX.utils.sheet_to_json(..., {header: 1})          *)
(* ------------------------------------------------------------------------ *)
StrCell(s) == [t |-> "s", s |-> s, n |-> 0]
NumCell(n) == [t |-> "n", s |-> <<>>, n |-> n]

\* JavaScript truthiness of a cell value: '' and 0 are falsy
Truthy(cell) == IF cell.t = "s" THEN cell.s # <<>> ELSE cell.n # 0

\* String(value)
String(cell) == IF cell.t = "s" THEN cell.s ELSE NumToString(cell.n)

\* row[i] of a JavaScript array (0-based); a missing element is undefined
HasCol(row, i) == i + 1 <= Len(row)
ColTruthy(row, i) == HasCol(row, i) /\ Truthy(row[i + 1])

(* ------------------------------------------------------------------------ *)
(* excelParser.ts                                                            *)
(* ------------------------------------------------------------------------ *)
keyVal(row) == IF ColTruthy(row, 1) THEN trim(String(row[2])) ELSE <<>>
sourceVal(row) == IF ColTruthy(row, 2) THEN trim(String(row[3])) ELSE <<>>

kKey == <<"k", "e", "y">>
kId == <<"i", "d">>
kValue == <<"v", "a", "l", "u", "e">>
kSource == <<"s", "o", "u", "r", "c", "e">>
kText == <<"t", "e", "x", "t">>

\* rows among the first HeaderRows of a sheet are candidates for suppression
HeaderRows == 5

IsHeaderRow(row, rowIndex) ==
  /\ rowIndex < HeaderRows
  /\ (toLowerCase(keyVal(row)) = kKey \/ toLowerCase(keyVal(row)) = kId)
  /\ \/ toLowerCase(sourceVal(row)) = kValue
     \/ toLowerCase(sourceVal(row)) = kSource
     \/ includes(toLowerCase(sourceVal(row)), kText)

\* variant: the emptiness test is made on the raw cells, before trimming
RowAdmittedRawCells(row, rowIndex) ==
  /\ Len(row) >= 2
  /\ ~ IsHeaderRow(row, rowIndex)
  /\ (ColTruthy(row, 1) \/ ColTruthy(row, 2))

\* the row yields a record
RowAdmitted(row, rowIndex) ==
  /\ Len(row) >= 2
  /\ ~ IsHeaderRow(row, rowIndex)
  /\ ~ (keyVal(row) = <<>> /\ sourceVal(row) = <<>>)

\* notes: the truthy cells of columns 3.., as (column, text) pairs in order
RECURSIVE NotesFrom(_, _)
NotesFrom(row, i) ==
  IF i >= Len(row) THEN <<>>
  ELSE (IF Truthy(row[i + 1]) THEN << <<i, String(row[i + 1])>> >> ELSE <<>>)
         \o NotesFrom(row, i + 1)

MakeRecord(sheetName, rowIndex, row, rnd) ==
  [id         |-> <<sheetName, rowIndex, rnd>>,
   taskName   |-> sheetName,
   originalId |-> IF ColTruthy(row, 0) THEN String(row[1]) ELSE <<>>,
   key        |-> keyVal(row),
   sourceText |-> sourceVal(row),
   notes      |-> NotesFrom(row, 3)]

\* the admitted rows of one sheet as (sheetName, rowIndex, row) triples
RECURSIVE SheetSlots(_, _, _)
SheetSlots(sheetName, rows, rowIndex) ==
  IF rowIndex >= Len(rows) THEN <<>>
  ELSE (IF RowAdmitted(rows[rowIndex + 1], rowIndex)
          THEN << <<sheetName, rowIndex, rows[rowIndex + 1]>> >> ELSE <<>>)
         \o SheetSlots(sheetName, rows, rowIndex + 1)

RECURSIVE BookSlots(_)
BookSlots(sheets) ==
  IF sheets = <<>> THEN <<>>
  ELSE SheetSlots(Head(sheets).name, Head(sheets).rows, 0) \o BookSlots(Tail(sheets))

\* the records one workbook contributes; rnds[i] is the Math.random() part
\* of the id of its i-th admitted row
ParseBook(sheets, rnds) ==
  LET slots == BookSlots(sheets)
  IN [i \in 1 .. Len(slots) |->
        MakeRecord(slots[i][1], slots[i][2], slots[i][3], rnds[i])]

(* ------------------------------------------------------------------------ *)
(* Inputs: the files a user can hand to an import call                       *)
(* ------------------------------------------------------------------------ *)
S(str) == StrCell(str)
Sheet(name, rows) == [name |-> name, rows |-> rows]
\* a file XLSX.read can tabularize, and one it throws on
Readable(ext, sheets) == [ext |-> ext, ok |-> TRUE, sheets |-> sheets]
Corrupt(ext) == [ext |-> ext, ok |-> FALSE, sheets |-> <<>>]

\* header row, then one row: key "id", sourceText "a_id.b"
FileHeader ==
  Readable("xlsx", << Sheet("S",
     << << S(<<"#">>), S(<<"K", "e", "y">>), S(<<"S", "o", "u", "r", "c", "e">>) >>,
        << S(<<"1">>), S(<<"i", "d">>), S(<<"a", "_", "i", "d", ".", "b">>) >> >>) >>)

\* a row with both candidates empty, then one with an empty key, an
\* untrimmed sourceText " Id " and a note
FileEmptyKey ==
  Readable("xlsx", << Sheet("S",
     << << S(<<"1">>), S(<<>>), S(<<>>), S(<<>>) >>,
        << S(<<"2">>), S(<<>>), S(<<" ", "I", "d", " ">>), S(<<"n">>) >> >>) >>)

\* a one-column sheet and a sheet whose only row holds 0, 0 and blanks
FileNoRecords ==
  Readable("csv", << Sheet("T", << << S(<<"o">>) >> >>),
                     Sheet("U", << << NumCell(0), NumCell(0), S(<<" ", " ">>) >> >>) >>)

\* numeric cells: a row of blank, " " and 0, then originalId 7, key "axb",
\* sourceText "aidb"
FileWords ==
  Readable("xls", << Sheet("S",
     << << S(<<>>), S(<<" ">>), NumCell(0) >>,
        << NumCell(7), S(<<"a", "x", "b">>), S(<<"a", "i", "d", "b">>) >> >>) >>)

FileCorrupt == Corrupt("xlsx")

FilePool == {FileHeader, FileEmptyKey, FileNoRecords, FileWords, FileCorrupt}

\* the non-empty file lists of one import call
FileLists == UNION {[1 .. n -> FilePool] : n \in 1 .. MaxFiles}

\* the values the user can type into the search box
QueryPool ==
  { <<>>, <<" ">>, <<"I", "D">>, <<"a", ".", "b">> }

\* measured durations reported in the stats
TimeVals == {0, 3}

(* ------------------------------------------------------------------------ *)
(* App.tsx: search                                                           *)
(* ------------------------------------------------------------------------ *)
\* the characters escapeRegExp escapes: . * + ? ^ $ { } ( ) | [ ] \
RegExpMeta == {".", "*", "+", "?", "^", "$", "{", "}", "(", ")", "|", "[", "]", "\\"}

escapeRegExpPlain(str) == str

RECURSIVE escapeRegExp(_)
escapeRegExp(str) ==
  IF str = <<>> THEN <<>>
  ELSE (IF Head(str) \in RegExpMeta THEN <<"\\", Head(str)>> ELSE <<Head(str)>>)
         \o escapeRegExp(Tail(str))

\* new RegExp(source): the body of the pattern as tokens. "\c" is the
\* literal c, an unescaped "." matches any character but a line break,
\* every other character stands for itself.
RECURSIVE CompileBody(_)
CompileBody(src) ==
  IF src = <<>> THEN <<>>
  ELSE IF Head(src) = "\\" /\ Len(src) >= 2
    THEN << [any |-> FALSE, c |-> src[2]] >> \o CompileBody(SubSeq(src, 3, Len(src)))
  ELSE IF Head(src) = "."
    THEN << [any |-> TRUE, c |-> "."] >> \o CompileBody(Tail(src))
  ELSE << [any |-> FALSE, c |-> Head(src)] >> \o CompileBody(Tail(src))

\* the separator class [\s._-]
Separators == WhiteSpace \cup {".", "_", "-"}

\* one token against one character under the i flag
TokenMatches(tok, ch) ==
  IF tok.any THEN ch # "\n" ELSE LowerChar(tok.c) = LowerChar(ch)

\* the body matches text at offsets b+1 .. b+Len(body)
BodyAt(body, text, b) ==
  /\ b + Len(body) <= Len(text)
  /\ \A k \in 1 .. Len(body) : TokenMatches(body[k], text[b + k])

\* exactMatchRegex.test(text) for (^|[\s._-])BODY([\s._-]|$) with flag i
exactMatchRegexTest(body, text) ==
  \E b \in 0 .. Len(text) :
     /\ (b = 0 \/ text[b] \in Separators)
     /\ BodyAt(body, text, b)
     /\ (b + Len(body) = Len(text) \/ text[b + Len(body) + 1] \in Separators)

\* the predicate of records.filter, for the trimmed query
ExactFilterKeyOnly(r, query) ==
  \/ toLowerCase(r.key) = toLowerCase(query)
  \/ exactMatchRegexTest(CompileBody(escapeRegExp(query)), r.key)

ExactFilter(r, query) ==
  \/ toLowerCase(r.key) = toLowerCase(query)
  \/ toLowerCase(r.sourceText) = toLowerCase(query)
  \/ exactMatchRegexTest(CompileBody(escapeRegExp(query)), r.key)
  \/ exactMatchRegexTest(CompileBody(escapeRegExp(query)), r.sourceText)

Ids(recs) == {recs[i].id : i \in 1 .. Len(recs)}

\* fuseResults.map(item).filter(not in exactIds)
DedupFuzzyNone(items, exact) == items

DedupFuzzy(items, exact) ==
  SelectSeq(items, LAMBDA item : item.id \notin Ids(exact))

\* debouncedQuery.trim()
EffectQueryUntrimmed(dq) == dq

EffectQuery(dq) == trim(dq)

\* new Fuse(records, ...) inside useMemo: null for an empty record set
BuildFuse(recs) == IF recs = <<>> THEN <<>> ELSE << [docs |-> recs] >>

\* variant: the memo has no dependency on records and keeps its first value
useMemoFuseHeld(held, recs) == held

\* useMemo(() => ..., [records]): every setRecords passes a new array, so
\* the render that follows it recomputes the index
useMemoFuse(held, recs) == BuildFuse(recs)

\* fuse.search(query): the library's ranking is not part of this repository;
\* the result is some ranked selection of the indexed documents, each at
\* most once.
FuseSearch(index, query) ==
  LET n == Len(index.docs)
      picks == UNION {[1 .. k -> 1 .. n] : k \in 0 .. n}
  IN { [i \in 1 .. Len(p) |-> index.docs[p[i]]] :
         p \in {q \in picks : \A i, j \in 1 .. Len(q) : q[i] = q[j] => i = j} }

\* what fuse.search can return when the effect runs; <<>> when it is not called
FuseOutcomes(dq, index) ==
  IF EffectQuery(dq) = <<>> \/ index = <<>> THEN { <<>> }
  ELSE FuseSearch(index[1], EffectQuery(dq))

\* the search effect: the (exactMatches, fuzzyMatches) it leaves
SearchEffect(dq, recs, index, oldExact, oldFuzzy, fuseResults) ==
  LET query == EffectQuery(dq)
  IN IF query = <<>> THEN [exact |-> <<>>, fuzzy |-> recs]
     ELSE IF index = <<>> THEN [exact |-> oldExact, fuzzy |-> oldFuzzy]
     ELSE LET exact == SelectSeq(recs, LAMBDA r : ExactFilter(r, query))
          IN [exact |-> exact, fuzzy |-> DedupFuzzy(fuseResults, exact)]

(* ------------------------------------------------------------------------ *)
(* State                                                                     *)
(* ------------------------------------------------------------------------ *)
VARIABLES
  records,         \* App state: the accumulated record set
  isProcessing,    \* App state: an import call is in flight
  searchQuery,     \* App state: the text of the search box
  stats,           \* App state: <<>> for null, else <<ParseStats>>
  exactMatches,    \* App state
  fuzzyMatches,    \* App state
  debouncedQuery,  \* useDebounce: the debounced value
  timer,           \* useDebounce: <<>> or <<value the pending timer will set>>
  fuse,            \* useMemo: <<>> for null, else <<index>>
  pc,              \* handleFiles: "idle" or "parsing" (suspended at an await)
  files,           \* handleFiles: the files of the call in flight
  fileIdx,         \* parseExcelFiles: the position of the for loop
  allRecords,      \* parseExcelFiles: the local result list (after a throw:
                   \* what the failed call had collected and dropped)
  alerts,          \* alert() calls made by the current or last import call
  lastBatch,       \* history: what the last committed parseExcelFiles call returned
  lastEval         \* history: the last run of the search effect

vars == <<records, isProcessing, searchQuery, stats, exactMatches, fuzzyMatches,
          debouncedQuery, timer, fuse, pc, files, fileIdx, allRecords, alerts,
          lastBatch, lastEval>>

importVars == <<pc, files, fileIdx, allRecords, alerts, lastBatch>>

\* the run of the search effect after a render in which one of its
\* dependencies [debouncedQuery, records, fuse] changed
\* (heldExact, heldFuzzy: the two lists as the handler of the step left them)
RunSearchEffect(heldExact, heldFuzzy, fuseResults) ==
  LET res == SearchEffect(debouncedQuery', records', fuse',
                          heldExact, heldFuzzy, fuseResults)
  IN /\ exactMatches' = res.exact
     /\ fuzzyMatches' = res.fuzzy
     /\ lastEval' = [query    |-> debouncedQuery',
                     current  |-> searchQuery',
                     searched |-> EffectQuery(debouncedQuery') # <<>> /\ fuse' # <<>>]

Init ==
  /\ records = <<>>
  /\ isProcessing = FALSE
  /\ searchQuery = <<>>
  /\ stats = <<>>
  /\ exactMatches = <<>>
  /\ fuzzyMatches = <<>>
  /\ debouncedQuery = <<>>
  /\ timer = << <<>> >>
  /\ fuse = <<>>
  /\ pc = "idle"
  /\ files = <<>>
  /\ fileIdx = 0
  /\ allRecords = <<>>
  /\ alerts = 0
  /\ lastBatch = <<>>
  /\ lastEval = [query |-> <<>>, current |-> <<>>, searched |-> FALSE]

(* ------------------------------------------------------------------------ *)
(* Import                                                                    *)
(* ------------------------------------------------------------------------ *)
AllowedExt == {"xlsx", "xls", "csv"}

\* handleFiles up to the first await inside parseExcelFiles
handleFilesStart(fl) ==
  /\ isProcessing' = TRUE
  /\ pc' = "parsing"
  /\ files' = fl
  /\ fileIdx' = 1
  /\ allRecords' = <<>>
  /\ alerts' = 0
  /\ UNCHANGED <<records, searchQuery, stats, exactMatches, fuzzyMatches,
                 debouncedQuery, timer, fuse, lastBatch, lastEval>>

\* the DropZone is rendered only while the record set is empty
DropZoneRendered == records = <<>>

HandleDrop ==
  \E fl \in FileLists :
     LET accepted == SelectSeq(fl, LAMBDA f : f.ext \in AllowedExt)
     IN /\ DropZoneRendered
        /\ ~ isProcessing
        /\ accepted # <<>>
        /\ handleFilesStart(accepted)

\* variant: the file input is not disabled while an import is in flight
HandleFileInputNotDisabled ==
  \E fl \in FileLists :
     /\ DropZoneRendered
     /\ handleFilesStart(fl)

\* onChange of the file input, which is disabled while isProcessing
HandleFileInput ==
  \E fl \in FileLists :
     /\ DropZoneRendered
     /\ ~ isProcessing
     /\ handleFilesStart(fl)

SameContent(a, b) ==
  a.taskName = b.taskName /\ a.key = b.key /\ a.sourceText = b.sourceText

\* variant: a record is appended only if no earlier record has its content
RECURSIVE AppendRecordsDedup(_, _)
AppendRecordsDedup(prev, newRecords) ==
  IF newRecords = <<>> THEN prev
  ELSE AppendRecordsDedup(
         IF \E i \in 1 .. Len(prev) : SameContent(prev[i], Head(newRecords))
           THEN prev ELSE Append(prev, Head(newRecords)),
         Tail(newRecords))

\* setRecords((prev) => [...prev, ...newRecords])
AppendRecords(prev, newRecords) == prev \o newRecords

\* the number of distinct taskName values of a batch
totalSheets(recs) == Cardinality({recs[i].taskName : i \in 1 .. Len(recs)})

\* the Math.random() parts of the ids of the rows one file contributes. Ids
\* are only compared for equality, so the k-th draw of a call is one of k
\* representative values: equal to an earlier draw of the call, or new.
RndChoices(f) ==
  LET n == Len(BookSlots(f.sheets))
      prior == Len(allRecords)
  IN {rnds \in [1 .. n -> 0 .. (prior + n - 1)] :
        \A i \in 1 .. n : rnds[i] <= prior + i - 1}

\* one iteration of the for loop that is not the last one
ParseFile ==
  /\ pc = "parsing"
  /\ fileIdx < Len(files)
  /\ files[fileIdx].ok
  /\ \E rnds \in RndChoices(files[fileIdx]) :
        allRecords' = allRecords \o ParseBook(files[fileIdx].sheets, rnds)
  /\ fileIdx' = fileIdx + 1
  /\ UNCHANGED <<records, isProcessing, searchQuery, stats, exactMatches,
                 fuzzyMatches, debouncedQuery, timer, fuse, pc, files, alerts,
                 lastBatch, lastEval>>

\* the last iteration, the return of parseExcelFiles and the rest of the
\* try block and the finally block of handleFiles
ParseLastAndCommit ==
  /\ pc = "parsing"
  /\ fileIdx = Len(files)
  /\ files[fileIdx].ok
  /\ \E rnds \in RndChoices(files[fileIdx]), ms \in TimeVals :
        LET newRecords == allRecords \o ParseBook(files[fileIdx].sheets, rnds)
        IN /\ lastBatch' = newRecords
           /\ records' = AppendRecords(records, newRecords)
           /\ stats' = << [totalFiles   |-> Len(files),
                           totalSheets  |-> totalSheets(newRecords),
                           totalRecords |-> Len(newRecords),
                           parseTimeMs  |-> ms] >>
  /\ isProcessing' = FALSE
  /\ pc' = "idle"
  /\ fuse' = useMemoFuse(fuse, records')
  /\ files' = <<>>
  /\ fileIdx' = 0
  /\ allRecords' = <<>>
  /\ UNCHANGED <<searchQuery, debouncedQuery, timer, alerts>>
  /\ \E fuseResults \in FuseOutcomes(debouncedQuery', fuse') :
        RunSearchEffect(exactMatches, fuzzyMatches, fuseResults)

\* variant: the records collected before the throw are committed
ParseFailPartialCommit ==
  /\ pc = "parsing"
  /\ ~ files[fileIdx].ok
  /\ alerts' = alerts + 1
  /\ isProcessing' = FALSE
  /\ pc' = "idle"
  /\ files' = <<>>
  /\ fileIdx' = 0
  /\ records' = AppendRecords(records, allRecords)
  /\ fuse' = useMemoFuse(fuse, records')
  /\ UNCHANGED <<searchQuery, stats, debouncedQuery, timer, allRecords, lastBatch>>
  /\ \E fuseResults \in FuseOutcomes(debouncedQuery', fuse') :
        RunSearchEffect(exactMatches, fuzzyMatches, fuseResults)

\* XLSX.read throws: the catch block and the finally block of handleFiles
ParseFail ==
  /\ pc = "parsing"
  /\ ~ files[fileIdx].ok
  /\ alerts' = alerts + 1
  /\ isProcessing' = FALSE
  /\ pc' = "idle"
  /\ files' = <<>>
  /\ fileIdx' = 0
  /\ UNCHANGED <<records, searchQuery, stats, exactMatches, fuzzyMatches,
                 debouncedQuery, timer, fuse, allRecords, lastBatch, lastEval>>

(* ------------------------------------------------------------------------ *)
(* Query, debounce, reset                                                    *)
(* ------------------------------------------------------------------------ *)
\* the search box is rendered only while the record set is non-empty
SearchBarRendered == records # <<>>

\* useDebounce(value, 150) when value changes: the pending timer is
\* cleared and a new one is started for the new value
useDebounceRestart(value) == timer' = <<value>>

\* onChange of the search box
ChangeQuery ==
  \E v \in QueryPool :
     /\ SearchBarRendered
     /\ v # searchQuery
     /\ searchQuery' = v
     /\ useDebounceRestart(v)
     /\ UNCHANGED <<records, isProcessing, stats, exactMatches, fuzzyMatches,
                    debouncedQuery, fuse, lastEval>>
     /\ UNCHANGED importVars

\* the pending timer fires; the search effect runs if the value changed
DebounceFire ==
  /\ timer # <<>>
  /\ debouncedQuery' = timer[1]
  /\ timer' = <<>>
  /\ UNCHANGED <<records, isProcessing, searchQuery, stats, fuse>>
  /\ UNCHANGED importVars
  /\ IF debouncedQuery' # debouncedQuery
       THEN \E fuseResults \in FuseOutcomes(debouncedQuery', fuse') :
               RunSearchEffect(exactMatches, fuzzyMatches, fuseResults)
       ELSE UNCHANGED <<exactMatches, fuzzyMatches, lastEval>>

\* variant: the handler leaves the two result lists to the search effect
handleResetKeepsResults ==
  /\ records # <<>>
  /\ records' = <<>>
  /\ stats' = <<>>
  /\ searchQuery' = <<>>
  /\ IF searchQuery # <<>> THEN useDebounceRestart(<<>>) ELSE timer' = timer
  /\ fuse' = useMemoFuse(fuse, records')
  /\ lastBatch' = <<>>
  /\ UNCHANGED <<isProcessing, debouncedQuery, pc, files, fileIdx, allRecords, alerts>>
  /\ RunSearchEffect(exactMatches, fuzzyMatches, <<>>)

\* the Reset button is rendered only while the record set is non-empty
handleReset ==
  /\ records # <<>>
  /\ records' = <<>>
  /\ stats' = <<>>
  /\ searchQuery' = <<>>
  /\ IF searchQuery # <<>> THEN useDebounceRestart(<<>>) ELSE timer' = timer
  /\ fuse' = useMemoFuse(fuse, records')
  /\ lastBatch' = <<>>
  /\ UNCHANGED <<isProcessing, debouncedQuery, pc, files, fileIdx, allRecords, alerts>>
  /\ RunSearchEffect(<<>>, <<>>, <<>>)

Next ==
  \/ HandleDrop
  \/ HandleFileInput
  \/ ParseFile
  \/ ParseLastAndCommit
  \/ ParseFail
  \/ ChangeQuery
  \/ DebounceFire
  \/ handleReset

Spec == Init /\ [][Next]_vars

(* ------------------------------------------------------------------------ *)
(* Properties                                                                *)
(* ------------------------------------------------------------------------ *)
Range(seq) == {seq[i] : i \in 1 .. Len(seq)}

\* C1: in every reachable state no record id occurs both in exactMatches
\* and in fuzzyMatches.
C1_Disjoint == Ids(exactMatches) \cap Ids(fuzzyMatches) = {}

\* a search that filled both lists
C1_Witness ==
  /\ lastEval.searched
  /\ exactMatches # <<>>
  /\ fuzzyMatches # <<>>

\* C2: when the evaluated query is empty after trimming, exactMatches is
\* empty and fuzzyMatches is the accumulated record set, in its order.
C2_BrowseAll ==
  trim(debouncedQuery) = <<>> =>
    exactMatches = <<>> /\ fuzzyMatches = records

\* a whitespace-only query over at least two records
C2_Witness ==
  /\ debouncedQuery = <<" ">>
  /\ lastEval.query = <<" ">>
  /\ Len(records) >= 2
  /\ fuzzyMatches = records

StrictlyEqual(r, q) ==
  toLowerCase(r.key) = toLowerCase(q) \/ toLowerCase(r.sourceText) = toLowerCase(q)

\* C3 as stated: every record whose key or sourceText, lower-cased, equals
\* the evaluated query lower-cased is in exactMatches, for every query.
C3_Original ==
  \A i \in 1 .. Len(records) :
     StrictlyEqual(records[i], debouncedQuery) => records[i] \in Range(exactMatches)

\* C3 (amended): for every query that is non-empty after trimming, every
\* record whose key or sourceText, lower-cased, equals the query lower-cased
\* is in exactMatches.
C3_StrictEquality ==
  trim(debouncedQuery) # <<>> =>
    \A i \in 1 .. Len(records) :
       StrictlyEqual(records[i], debouncedQuery) => records[i] \in Range(exactMatches)

\* one record equal to the query by key and one by sourceText only, with a
\* record that is not an exact match
C3_Witness ==
  /\ trim(debouncedQuery) # <<>>
  /\ \E i \in 1 .. Len(records) :
        toLowerCase(records[i].key) = toLowerCase(debouncedQuery)
  /\ \E i \in 1 .. Len(records) :
        /\ toLowerCase(records[i].key) # toLowerCase(debouncedQuery)
        /\ toLowerCase(records[i].sourceText) = toLowerCase(debouncedQuery)
        /\ records[i] \in Range(exactMatches)

\* q occurs in text, compared lower-cased character by character, between
\* a string boundary or separator and a separator or string boundary
WordSeparators == {" ", "\t", "\n", ".", "_", "-"}

WholeWordIn(q, text) ==
  \E p \in 1 .. (Len(text) - Len(q) + 1) :
     /\ toLowerCase(SubSeq(text, p, p + Len(q) - 1)) = toLowerCase(q)
     /\ (p = 1 \/ text[p - 1] \in WordSeparators)
     /\ (p + Len(q) - 1 = Len(text) \/ text[p + Len(q)] \in WordSeparators)

CommitStep == pc = "parsing" /\ pc' = "idle" /\ alerts' = alerts
FailStep == pc = "parsing" /\ pc' = "idle" /\ alerts' # alerts

C6_UniqueIds ==
  \A i, j \in 1 .. Len(records) : records[i].id = records[j].id => i = j

\* C7: when tabularization fails for a file of an import call, the record
\* set, the stats and both result lists are as before the call, even if
\* sibling files were parsed before; one notice is given and the
\* processing flag is false again.
C7_NoPartialCommit ==
  [][FailStep =>
       /\ records' = records
       /\ stats' = stats
       /\ exactMatches' = exactMatches
       /\ fuzzyMatches' = fuzzyMatches
       /\ fuse' = fuse
       /\ alerts = 0 /\ alerts' = 1
       /\ isProcessing /\ ~ isProcessing']_vars

\* a call failed after records of sibling files had been collected
C7_Witness ==
  /\ pc = "idle"
  /\ alerts = 1
  /\ allRecords # <<>>
  /\ records = <<>>
  /\ ~ isProcessing

\* C8: whenever the record set is empty (initially and after every reset,
\* whatever debounced query is pending or held), the index and the current
\* query are cleared and both result lists are empty.
C8_EmptySetEmptyResults ==
  records = <<>> =>
    /\ fuse = <<>>
    /\ searchQuery = <<>>
    /\ exactMatches = <<>>
    /\ fuzzyMatches = <<>>

\* after a reset the effect ran with a non-empty query that was still held
C8_Witness ==
  /\ records = <<>>
  /\ lastBatch = <<>>
  /\ trim(debouncedQuery) # <<>>
  /\ lastEval.query = debouncedQuery
  /\ lastEval.current = <<>>
  /\ ~ lastEval.searched

\* C9: every record has a key or a sourceText that is non-empty after
\* trimming; a row whose two candidates are empty yields no record.
C9_KeyOrSource ==
  \A r \in Range(records) \cup Range(allRecords) \cup Range(lastBatch) :
     trim(r.key) # <<>> \/ trim(r.sourceText) # <<>>

\* a file whose row 0 has both candidates empty, and whose row 1 has an
\* empty key only, has been imported: only row 1 became a record
C9_Witness ==
  /\ \E i \in 1 .. Len(records) :
        /\ records[i].key = <<>>
        /\ records[i].id[2] = 1
  /\ \A i \in 1 .. Len(records) : records[i].id[2] # 0

\* C10: no run of the search effect that reaches classification and
\* fuse.search uses a query value other than the one the user currently
\* has in the search box.
C10_SearchedCurrentQuery == lastEval.searched => lastEval.query = lastEval.current

\* the step starts an import call
StartStep ==
  /\ pc' = "parsing"
  /\ fileIdx' = 1
  /\ (fileIdx # 1 \/ files' # files)

\* C11: an import call starts only while no other call is in flight
\* (processing flag false), by the drop path or by the picker path, and the
\* processing flag is true exactly while a call is suspended.
C11_SingleImport ==
  [][/\ StartStep => (~ isProcessing /\ pc = "idle")
     /\ isProcessing' <=> pc' = "parsing"]_vars

\* a call suspended between two files, with the record set still empty
C11_Witness ==
  /\ isProcessing
  /\ pc = "parsing"
  /\ fileIdx = 2
  /\ allRecords # <<>>
  /\ records = <<>>

\* C12: the index is the one built from exactly the current record set
\* (none when the set is empty) in every state, hence in every run of the
\* search effect, and both result lists hold records of that set only.
C12_IndexCurrent ==
  /\ fuse = (IF records = <<>> THEN <<>> ELSE << [docs |-> records] >>)
  /\ Range(exactMatches) \cup Range(fuzzyMatches) \subseteq Range(records)

\* a search ran on the index of a set committed after a reset
C12_Witness ==
  /\ lastEval.searched
  /\ lastEval.current = <<>>
  /\ fuse # <<>>
  /\ fuse[1].docs = records
  /\ Len(records) >= 2
  /\ fuzzyMatches # <<>>

\* the trimmed string form of the cell in column i, empty if the cell is absent
CellText(row, i) == IF HasCol(row, i) THEN trim(String(row[i + 1])) ELSE <<>>

\* the records the call in flight made of row rowIndex of sheet sh
RecordsOfRow(sh, rowIndex) ==
  {r \in Range(allRecords) : r.taskName = sh.name /\ r.id[2] = rowIndex}

\* C13: once the first file of a call is parsed, every record made of one
\* of its rows has key and sourceText equal to the trimmed string forms of
\* the column-1 and column-2 cells, whatever the cell values (numbers
\* included), and a row of two or more columns that is no header row
\* yields no record only if both of these are empty.
C13_StringifiedCandidates ==
  (pc = "parsing" /\ fileIdx = 2) =>
    \A k \in 1 .. Len(files[1].sheets) :
       LET sh == files[1].sheets[k]
       IN \A rowIndex \in 0 .. (Len(sh.rows) - 1) :
             LET row == sh.rows[rowIndex + 1]
             IN /\ \A r \in RecordsOfRow(sh, rowIndex) :
                      /\ r.key = CellText(row, 1)
                      /\ r.sourceText = CellText(row, 2)
                /\ (Len(row) >= 2 /\ ~ IsHeaderRow(row, rowIndex)
                      /\ RecordsOfRow(sh, rowIndex) = {})
                     => (CellText(row, 1) = <<>> /\ CellText(row, 2) = <<>>)

====
